---- MODULE Spec2Model ----
(***************************************************************************)
(* Model of the LZFSE JNI bridge of hadoop-common:                         *)
(*   LzfseCompressor.c   (initIDs, compressBytesDirect, getLibraryName)    *)
(*   LzfseDecompressor.c (initIDs, decompressBytesDirect)                  *)
(* The file-static function pointers and field ids are the process-wide    *)
(* state; every JNI entry point is an operation a Java thread may call.    *)
(***************************************************************************)
EXTENDS Integers, Sequences, FiniteSets, TLC

(***************************************************************************)
(* Bounds of the model.                                                    *)
(***************************************************************************)
NumThreads == 2
MaxOpens == 3
MaxLen == 3
MaxCap == 6

(***************************************************************************)
(* Machine integers.  TLC computes with 32-bit integers, so the widths are *)
(* scaled down: jint/jsize is JSIZE_BITS wide and size_t SIZE_BITS wide,   *)
(* with size_t the wider of the two as on an LP64 build.                   *)
(***************************************************************************)
JSIZE_BITS == 8
SIZE_BITS == 16

Pow2(n) == 2 ^ n

JINT_MAX == Pow2(JSIZE_BITS - 1) - 1

\* (size_t) x for a jint x: sign extension to the unsigned machine word
ToSizeT(x) == x % Pow2(SIZE_BITS)

\* a narrowing that keeps one bit too few
ToJsizeNarrow(x) ==
  LET m == x % Pow2(JSIZE_BITS - 1)
  IN  IF m >= Pow2(JSIZE_BITS - 2) THEN m - Pow2(JSIZE_BITS - 1) ELSE m

\* (jsize) x for a size_t x: the low bits, read as a signed integer
ToJsize(x) ==
  LET m == x % Pow2(JSIZE_BITS)
  IN  IF m >= Pow2(JSIZE_BITS - 1) THEN m - Pow2(JSIZE_BITS) ELSE m

(***************************************************************************)
(* The dynamic loader and the codec libraries it may find.                 *)
(***************************************************************************)
HADOOP_LZFSE_LIBRARY == "liblzfse.so"

NULL == "NULL"
NullFn == [lib |-> NULL, sym |-> NULL]

\* the candidate libraries the search path may resolve to: a complete one,
\* one without the decoder, one without the encoder
Libs == {"libFull", "libNoDecode", "libNoEncode"}

Symbols(l) ==
  CASE l = "libFull"     -> {"lzfse_encode_buffer", "lzfse_decode_buffer"}
    [] l = "libNoDecode" -> {"lzfse_encode_buffer"}
    [] l = "libNoEncode" -> {"lzfse_decode_buffer"}
    [] OTHER             -> {}

\* dli_fname of a loaded object
LibPath(l) ==
  CASE l = "libFull"     -> "/usr/lib/liblzfse.so"
    [] l = "libNoDecode" -> "/opt/a/liblzfse.so"
    [] l = "libNoEncode" -> "/opt/b/liblzfse.so"
    [] OTHER             -> ""

Threads == 1 .. NumThreads

VARIABLES
  pc,                          \* position of each thread inside initIDs
  liblzfse,                    \* the local handle of each thread's initIDs
  initOutcome,                 \* how each thread's latest initIDs returned
  dlsym_lzfse_encode_buffer,   \* static of LzfseCompressor.c
  dlsym_lzfse_decode_buffer,   \* static of LzfseDecompressor.c
  LzfseCompressor_fieldIDs,    \* the three jfieldID statics are set
  LzfseDecompressor_fieldIDs,
  loadedLib,                   \* the object the loader holds for the name
  dlopenCalls,                 \* number of dlopen calls executed
  dlsymCalls,                  \* number of symbol resolutions executed
  last,                        \* outcome of the latest codec/diagnostic call
  crashed,                     \* the process called through a null pointer
  uncompressedBuffer,          \* compressor object: source bytes
  compressedBuffer,            \* compressor object: destination bytes
  cInternalBufferSize,         \* compressor object: internalBufferSize
  dCompressedBuffer,           \* decompressor object: source bytes
  decompressedBuffer,          \* decompressor object: destination bytes
  dInternalBufferSize,         \* decompressor object: internalBufferSize
  stage,                       \* position of the caller's round trip
  original,                    \* the bytes the caller put in
  L1,                          \* what compress returned
  L2,                          \* what decompress returned
  cFailure,                    \* the exception compress left pending
  dFailure                     \* the exception decompress left pending

loaderVars == <<pc, liblzfse, initOutcome, dlsym_lzfse_encode_buffer,
                dlsym_lzfse_decode_buffer, LzfseCompressor_fieldIDs,
                LzfseDecompressor_fieldIDs, loadedLib, dlopenCalls, dlsymCalls>>
callVars == <<last, crashed>>
tripVars == <<uncompressedBuffer, compressedBuffer, cInternalBufferSize,
              dCompressedBuffer, decompressedBuffer, dInternalBufferSize,
              stage, original, L1, L2, cFailure, dFailure>>
vars == <<loaderVars, callVars, tripVars>>

(***************************************************************************)
(* Exceptions the entry points leave pending.                              *)
(***************************************************************************)
NoException == "none"
UnsatisfiedLinkError == "java/lang/UnsatisfiedLinkError"
InternalError == "java/lang/InternalError"
SymbolResolutionError == "SymbolResolutionError"

NoInit == [side |-> "none", exc |-> NoException, lib |-> NULL]
\* a call record: the arguments, what the foreign function returned (r), what
\* the entry point returned (ret, name) and left pending (exc), and the two
\* statics as the call found them (enc, dec)
NoCall == [op |-> "none", size |-> 0, cap |-> 0, r |-> 0, ret |-> 0,
           exc |-> NoException, name |-> "", enc |-> NullFn, dec |-> NullFn]

Called(op) == [NoCall EXCEPT !.op = op,
                             !.enc = dlsym_lzfse_encode_buffer,
                             !.dec = dlsym_lzfse_decode_buffer]

(***************************************************************************)
(* dlopen(HADOOP_LZFSE_LIBRARY, RTLD_LAZY | RTLD_GLOBAL): an object that   *)
(* is already loaded is returned again; otherwise the search either fails  *)
(* or finds one of the candidate libraries.  The set is the handles the    *)
(* call may return.                                                        *)
(***************************************************************************)
dlopen == IF loadedLib # NULL THEN {loadedLib} ELSE Libs \cup {NULL}

\* the check of the handle that dlopen returned
OpenFailedNever(h) == FALSE

OpenFailed(h) == h = NULL

\* LOAD_DYNAMIC_SYMBOL(func_ptr, env, handle, symbol): the address of the
\* symbol in the object, or a null pointer and a pending exception
LOAD_DYNAMIC_SYMBOL(h, symbol) ==
  IF symbol \in Symbols(h)
    THEN [ptr |-> [lib |-> h, sym |-> symbol], exc |-> NoException]
    ELSE [ptr |-> NullFn, exc |-> SymbolResolutionError]

(***************************************************************************)
(* LzfseCompressor.initIDs, in two steps: the dlopen and its check, then   *)
(* the symbol lookup, the field ids and the return.                        *)
(***************************************************************************)
CompressorInitOpen(t) ==
  /\ ~crashed
  /\ pc[t] = "idle"
  /\ dlopenCalls < MaxOpens
  /\ \E h \in dlopen :
       /\ dlopenCalls' = dlopenCalls + 1
       /\ loadedLib' = IF h # NULL THEN h ELSE loadedLib
       /\ IF OpenFailed(h)
            THEN /\ initOutcome' = [initOutcome EXCEPT ![t] =
                       [side |-> "compressor", exc |-> UnsatisfiedLinkError,
                        lib |-> h]]
                 /\ UNCHANGED <<pc, liblzfse>>
            ELSE /\ liblzfse' = [liblzfse EXCEPT ![t] = h]
                 /\ pc' = [pc EXCEPT ![t] = "c_resolve"]
                 /\ UNCHANGED initOutcome
  /\ UNCHANGED <<dlsym_lzfse_encode_buffer, dlsym_lzfse_decode_buffer,
                 LzfseCompressor_fieldIDs, LzfseDecompressor_fieldIDs,
                 dlsymCalls, callVars, tripVars>>

CompressorInitResolve(t) ==
  /\ ~crashed
  /\ pc[t] = "c_resolve"
  /\ LET res == LOAD_DYNAMIC_SYMBOL(liblzfse[t], "lzfse_encode_buffer")
     IN  /\ dlsym_lzfse_encode_buffer' = res.ptr
         /\ dlsymCalls' = dlsymCalls + 1
         /\ LzfseCompressor_fieldIDs' =
              IF res.ptr = NullFn THEN LzfseCompressor_fieldIDs ELSE TRUE
         /\ initOutcome' = [initOutcome EXCEPT ![t] =
              [side |-> "compressor", exc |-> res.exc, lib |-> liblzfse[t]]]
  /\ pc' = [pc EXCEPT ![t] = "idle"]
  /\ liblzfse' = [liblzfse EXCEPT ![t] = NULL]
  /\ UNCHANGED <<dlsym_lzfse_decode_buffer, LzfseDecompressor_fieldIDs,
                 loadedLib, dlopenCalls, callVars, tripVars>>

(***************************************************************************)
(* LzfseDecompressor.initIDs, the same two steps on its own static.        *)
(***************************************************************************)
DecompressorInitOpen(t) ==
  /\ ~crashed
  /\ pc[t] = "idle"
  /\ dlopenCalls < MaxOpens
  /\ \E h \in dlopen :
       /\ dlopenCalls' = dlopenCalls + 1
       /\ loadedLib' = IF h # NULL THEN h ELSE loadedLib
       /\ IF OpenFailed(h)
            THEN /\ initOutcome' = [initOutcome EXCEPT ![t] =
                       [side |-> "decompressor", exc |-> UnsatisfiedLinkError,
                        lib |-> h]]
                 /\ UNCHANGED <<pc, liblzfse>>
            ELSE /\ liblzfse' = [liblzfse EXCEPT ![t] = h]
                 /\ pc' = [pc EXCEPT ![t] = "d_resolve"]
                 /\ UNCHANGED initOutcome
  /\ UNCHANGED <<dlsym_lzfse_encode_buffer, dlsym_lzfse_decode_buffer,
                 LzfseCompressor_fieldIDs, LzfseDecompressor_fieldIDs,
                 dlsymCalls, callVars, tripVars>>

DecompressorInitResolve(t) ==
  /\ ~crashed
  /\ pc[t] = "d_resolve"
  /\ LET res == LOAD_DYNAMIC_SYMBOL(liblzfse[t], "lzfse_decode_buffer")
     IN  /\ dlsym_lzfse_decode_buffer' = res.ptr
         /\ dlsymCalls' = dlsymCalls + 1
         /\ LzfseDecompressor_fieldIDs' =
              IF res.ptr = NullFn THEN LzfseDecompressor_fieldIDs ELSE TRUE
         /\ initOutcome' = [initOutcome EXCEPT ![t] =
              [side |-> "decompressor", exc |-> res.exc, lib |-> liblzfse[t]]]
  /\ pc' = [pc EXCEPT ![t] = "idle"]
  /\ liblzfse' = [liblzfse EXCEPT ![t] = NULL]
  /\ UNCHANGED <<dlsym_lzfse_encode_buffer, LzfseCompressor_fieldIDs,
                 loadedLib, dlopenCalls, callVars, tripVars>>

(***************************************************************************)
(* The foreign entry points, by their contract: the number of bytes        *)
(* written into the destination, at most its capacity, and 0 for an empty  *)
(* input or a failure.                                                     *)
(***************************************************************************)
SizeSamples == {0, 1, 2, JINT_MAX}

ForeignReturns(dst_size, src_size) ==
  {0} \cup {r \in SizeSamples : r <= dst_size /\ src_size # 0}

(***************************************************************************)
(* compressBytesDirect / decompressBytesDirect.                            *)
(***************************************************************************)
\* size_t src_size = (size_t) size
CompressSrcSize(size) == ToSizeT(size)

\* a capacity one larger than the field holds
DstSizeOffByOne(internalBufferSize) == ToSizeT(internalBufferSize) + 1

\* size_t dst_size = (size_t) GetIntField(internalBufferSize)
CompressDstSize(internalBufferSize) == ToSizeT(internalBufferSize)

DecompressSrcSize(size) == ToSizeT(size)

DecompressDstSize(internalBufferSize) == ToSizeT(internalBufferSize)

\* the zero test without the source length
BytesDirectZeroAlwaysFails(size, r) ==
  [ret |-> ToJsize(r),
   exc |-> IF ToJsize(r) = 0 THEN InternalError ELSE NoException]

\* the zero test left out
BytesDirectNeverFails(size, r) ==
  [ret |-> ToJsize(r), exc |-> NoException]

\* the cast keeps too few bits
BytesDirectNarrow(size, r) ==
  [ret |-> ToJsizeNarrow(r),
   exc |-> IF ToJsizeNarrow(r) = 0 /\ CompressSrcSize(size) # 0
             THEN InternalError ELSE NoException]

\* jsize encoded = (jsize) foreign(...); throw if it is 0 for a non-empty
\* source; return encoded (the throw only leaves the exception pending)
compressBytesDirect(size, r) ==
  LET encoded == ToJsize(r)
  IN  [ret |-> encoded,
       exc |-> IF encoded = 0 /\ CompressSrcSize(size) # 0
                 THEN InternalError ELSE NoException]

decompressBytesDirect(size, r) ==
  LET decoded == ToJsize(r)
  IN  [ret |-> decoded,
       exc |-> IF decoded = 0 /\ DecompressSrcSize(size) # 0
                 THEN InternalError ELSE NoException]

\* the lengths and capacities a caller passes
Lengths == {0, 1, JINT_MAX}
Capacities == {0, 2, JINT_MAX}

CompressBytesDirect(t) ==
  /\ ~crashed
  /\ pc[t] = "idle"
  /\ IF ~LzfseCompressor_fieldIDs \/ dlsym_lzfse_encode_buffer = NullFn
       THEN /\ crashed' = TRUE
            /\ last' = Called("compress")
       ELSE /\ \E size \in Lengths, cap \in Capacities :
                 \E r \in ForeignReturns(CompressDstSize(cap),
                                         CompressSrcSize(size)) :
                   LET out == compressBytesDirect(size, r)
                   IN  last' = [Called("compress") EXCEPT
                                  !.size = size, !.cap = cap, !.r = r,
                                  !.ret = out.ret, !.exc = out.exc]
            /\ UNCHANGED crashed
  /\ UNCHANGED <<loaderVars, tripVars>>

DecompressBytesDirect(t) ==
  /\ ~crashed
  /\ pc[t] = "idle"
  /\ IF ~LzfseDecompressor_fieldIDs \/ dlsym_lzfse_decode_buffer = NullFn
       THEN /\ crashed' = TRUE
            /\ last' = Called("decompress")
       ELSE /\ \E size \in Lengths, cap \in Capacities :
                 \E r \in ForeignReturns(DecompressDstSize(cap),
                                         DecompressSrcSize(size)) :
                   LET out == decompressBytesDirect(size, r)
                   IN  last' = [Called("decompress") EXCEPT
                                  !.size = size, !.cap = cap, !.r = r,
                                  !.ret = out.ret, !.exc = out.exc]
            /\ UNCHANGED crashed
  /\ UNCHANGED <<loaderVars, tripVars>>

(***************************************************************************)
(* LzfseCompressor.getLibraryName.                                         *)
(***************************************************************************)
\* dladdr(addr, &dl_info): the path of the loaded object holding addr
dladdr(addr) ==
  IF addr.lib \in Libs /\ addr.lib = loadedLib
    THEN [ok |-> TRUE, dli_fname |-> LibPath(addr.lib)]
    ELSE [ok |-> FALSE, dli_fname |-> ""]

\* the name without looking at the pointer
LibraryNameAlwaysDefault == HADOOP_LZFSE_LIBRARY

getLibraryName ==
  IF dlsym_lzfse_encode_buffer # NullFn /\ dladdr(dlsym_lzfse_encode_buffer).ok
    THEN dladdr(dlsym_lzfse_encode_buffer).dli_fname
    ELSE HADOOP_LZFSE_LIBRARY

GetLibraryName(t) ==
  /\ ~crashed
  /\ pc[t] = "idle"
  /\ last' = [Called("getLibraryName") EXCEPT !.name = getLibraryName]
  /\ UNCHANGED <<loaderVars, crashed, tripVars>>

(***************************************************************************)
(* A codec behind the two entry points, for the calls that move bytes: a   *)
(* run-length code.  lzfse_encode_buffer writes nothing and returns 0 when *)
(* the source is empty or the code does not fit; lzfse_decode_buffer       *)
(* returns 0 for a stream it rejects and fills the destination up to its   *)
(* capacity otherwise.                                                     *)
(***************************************************************************)
Bytes == {65, 66}

Min(a, b) == IF a <= b THEN a ELSE b

RECURSIVE RunLength(_)
RunLength(s) ==
  IF Len(s) <= 1 THEN Len(s)
  ELSE IF s[2] = s[1] THEN 1 + RunLength(Tail(s)) ELSE 1

RECURSIVE Rle(_)
Rle(s) ==
  IF s = <<>> THEN <<>>
  ELSE LET n == RunLength(s)
       IN  <<n, s[1]>> \o Rle(SubSeq(s, n + 1, Len(s)))

WellFormed(e) ==
  /\ Len(e) % 2 = 0
  /\ \A i \in 1 .. Len(e) : i % 2 = 1 => e[i] >= 1

RECURSIVE Unrle(_)
Unrle(e) ==
  IF Len(e) < 2 THEN <<>>
  ELSE [i \in 1 .. e[1] |-> e[2]] \o Unrle(SubSeq(e, 3, Len(e)))

\* dst with its first Len(out) bytes replaced by out
Written(dst, out) == out \o SubSeq(dst, Len(out) + 1, Len(dst))

lzfse_encode_buffer(dst, dst_size, src) ==
  LET e == Rle(src)
  IN  IF src = <<>> \/ Len(e) > dst_size
        THEN [n |-> 0, dst |-> dst]
        ELSE [n |-> Len(e), dst |-> Written(dst, e)]

lzfse_decode_buffer(dst, dst_size, src) ==
  IF src = <<>> \/ ~WellFormed(src)
    THEN [n |-> 0, dst |-> dst]
    ELSE LET d == Unrle(src)
             n == Min(Len(d), dst_size)
         IN  [n |-> n, dst |-> Written(dst, SubSeq(d, 1, n))]

(***************************************************************************)
(* A caller that compresses a buffer and decompresses the result, on one   *)
(* LzfseCompressor and one LzfseDecompressor object.                       *)
(***************************************************************************)
RECURSIVE SeqsUpTo(_)
SeqsUpTo(n) ==
  IF n = 0 THEN {<<>>}
  ELSE SeqsUpTo(n - 1) \cup {Append(q, b) : q \in {p \in SeqsUpTo(n - 1) : Len(p) = n - 1}, b \in Bytes}

Zeros(n) == [i \in 1 .. n |-> 0]

\* the caller fills the source buffer and allocates the destination
SetInput ==
  /\ stage = "idle"
  /\ \E b \in SeqsUpTo(MaxLen), cap \in 0 .. MaxCap :
       /\ uncompressedBuffer' = b
       /\ cInternalBufferSize' = cap
       /\ compressedBuffer' = Zeros(cap)
  /\ stage' = "filled"
  /\ UNCHANGED <<dCompressedBuffer, decompressedBuffer, dInternalBufferSize,
                 original, L1, L2, cFailure, dFailure, loaderVars, callVars>>

\* the prefix a source-length argument passes
SrcPrefixAll(buf, size) == buf

SrcPrefix(buf, size) == SubSeq(buf, 1, size)

\* compressBytesDirect on the compressor object
Compress ==
  /\ stage = "filled"
  /\ dlsym_lzfse_encode_buffer # NullFn /\ LzfseCompressor_fieldIDs
  /\ \E size \in 0 .. Len(uncompressedBuffer) :
       LET f == lzfse_encode_buffer(compressedBuffer,
                                    CompressDstSize(cInternalBufferSize),
                                    SrcPrefix(uncompressedBuffer,
                                              CompressSrcSize(size)))
           out == compressBytesDirect(size, f.n)
       IN  /\ compressedBuffer' = f.dst
           /\ L1' = out.ret
           /\ cFailure' = out.exc
           /\ original' = SubSeq(uncompressedBuffer, 1, size)
  /\ stage' = "compressed"
  /\ UNCHANGED <<uncompressedBuffer, cInternalBufferSize, dCompressedBuffer,
                 decompressedBuffer, dInternalBufferSize, L2, dFailure,
                 loaderVars, callVars>>

\* the caller hands the first L1 bytes to the decompressor object
HandOver ==
  /\ stage = "compressed"
  /\ cFailure = NoException
  /\ \E cap \in 0 .. MaxCap :
       /\ dInternalBufferSize' = cap
       /\ decompressedBuffer' = Zeros(cap)
  /\ dCompressedBuffer' = SubSeq(compressedBuffer, 1, L1)
  /\ stage' = "handed"
  /\ UNCHANGED <<uncompressedBuffer, compressedBuffer, cInternalBufferSize,
                 original, L1, L2, cFailure, dFailure, loaderVars, callVars>>

\* decompressBytesDirect on the decompressor object, with L1 as the length
Decompress ==
  /\ stage = "handed"
  /\ dlsym_lzfse_decode_buffer # NullFn /\ LzfseDecompressor_fieldIDs
  /\ LET f == lzfse_decode_buffer(decompressedBuffer,
                                  DecompressDstSize(dInternalBufferSize),
                                  SrcPrefix(dCompressedBuffer,
                                            DecompressSrcSize(L1)))
         out == decompressBytesDirect(L1, f.n)
     IN  /\ decompressedBuffer' = f.dst
         /\ L2' = out.ret
         /\ dFailure' = out.exc
  /\ stage' = "decompressed"
  /\ UNCHANGED <<uncompressedBuffer, compressedBuffer, cInternalBufferSize,
                 dCompressedBuffer, dInternalBufferSize, original, L1,
                 cFailure, loaderVars, callVars>>

\* the caller starts over
Reset ==
  /\ stage \in {"compressed", "decompressed"}
  /\ stage' = "idle"
  /\ uncompressedBuffer' = <<>>
  /\ compressedBuffer' = <<>>
  /\ cInternalBufferSize' = 0
  /\ dCompressedBuffer' = <<>>
  /\ decompressedBuffer' = <<>>
  /\ dInternalBufferSize' = 0
  /\ original' = <<>>
  /\ L1' = 0
  /\ L2' = 0
  /\ cFailure' = NoException
  /\ dFailure' = NoException
  /\ UNCHANGED <<loaderVars, callVars>>

(***************************************************************************)
(* Specifications.                                                         *)
(***************************************************************************)
TripIdle ==
  /\ uncompressedBuffer = <<>>
  /\ compressedBuffer = <<>>
  /\ cInternalBufferSize = 0
  /\ dCompressedBuffer = <<>>
  /\ decompressedBuffer = <<>>
  /\ dInternalBufferSize = 0
  /\ stage = "idle"
  /\ original = <<>>
  /\ L1 = 0
  /\ L2 = 0
  /\ cFailure = NoException
  /\ dFailure = NoException

\* the process before any native method ran: the statics are zero
Init ==
  /\ pc = [t \in Threads |-> "idle"]
  /\ liblzfse = [t \in Threads |-> NULL]
  /\ initOutcome = [t \in Threads |-> NoInit]
  /\ dlsym_lzfse_encode_buffer = NullFn
  /\ dlsym_lzfse_decode_buffer = NullFn
  /\ LzfseCompressor_fieldIDs = FALSE
  /\ LzfseDecompressor_fieldIDs = FALSE
  /\ loadedLib = NULL
  /\ dlopenCalls = 0
  /\ dlsymCalls = 0
  /\ last = NoCall
  /\ crashed = FALSE
  /\ TripIdle

Next ==
  \E t \in Threads :
    \/ CompressorInitOpen(t)
    \/ CompressorInitResolve(t)
    \/ DecompressorInitOpen(t)
    \/ DecompressorInitResolve(t)
    \/ CompressBytesDirect(t)
    \/ DecompressBytesDirect(t)
    \/ GetLibraryName(t)

Spec == Init /\ [][Next]_vars

\* the process after thread 1 ran both initIDs against the complete library
Loaded ==
  /\ pc = [t \in Threads |-> "idle"]
  /\ liblzfse = [t \in Threads |-> NULL]
  /\ initOutcome = [t \in Threads |->
        IF t = 1 THEN [side |-> "decompressor", exc |-> NoException,
                       lib |-> "libFull"]
                 ELSE NoInit]
  /\ dlsym_lzfse_encode_buffer = [lib |-> "libFull", sym |-> "lzfse_encode_buffer"]
  /\ dlsym_lzfse_decode_buffer = [lib |-> "libFull", sym |-> "lzfse_decode_buffer"]
  /\ LzfseCompressor_fieldIDs = TRUE
  /\ LzfseDecompressor_fieldIDs = TRUE
  /\ loadedLib = "libFull"
  /\ dlopenCalls = 2
  /\ dlsymCalls = 2
  /\ last = NoCall
  /\ crashed = FALSE

InitCodec == Loaded /\ TripIdle

NextCodec == SetInput \/ Compress \/ HandOver \/ Decompress \/ Reset

SpecCodec == InitCodec /\ [][NextCodec]_vars

(***************************************************************************)
(* Properties.                                                             *)
(***************************************************************************)
CodecCall == last.op \in {"compress", "decompress"}

\* the call went through a resolved entry point
ForeignCalled ==
  \/ last.op = "compress" /\ last.enc # NullFn
  \/ last.op = "decompress" /\ last.dec # NullFn

CodecFailure == InternalError
LibraryLoadError == UnsatisfiedLinkError

\* every thread has returned from a successful LzfseCompressor.initIDs and
\* nobody touched the decompressor side
AllCompressorCallersReturned ==
  /\ \A t \in Threads :
       /\ pc[t] = "idle"
       /\ initOutcome[t].side = "compressor"
       /\ initOutcome[t].exc = NoException
  /\ dlsym_lzfse_decode_buffer = NullFn

\* C1: when N >= 2 threads have all returned from first-use initialization,
\* the open + symbol-resolve sequence was executed exactly once process-wide
\* and all of them reference the same handle.
C1_OpenResolveExactlyOnce ==
  AllCompressorCallersReturned =>
    /\ dlopenCalls = 1
    /\ dlsymCalls = 1
    /\ \A t, u \in Threads : initOutcome[t].lib = initOutcome[u].lib

C3_SuccessWithinCapacity ==
  (ForeignCalled /\ last.exc = NoException) =>
    /\ last.ret >= 0
    /\ last.ret <= last.cap

C3_Witness ==
  /\ ForeignCalled
  /\ last.op = "compress"
  /\ last.exc = NoException
  /\ last.size = JINT_MAX
  /\ last.cap = 2
  /\ last.ret = 2

\* C4: once a handle exists, no later step repeats the open or the resolve
\* and the cached entry points never change value.
C4_NoReloadOnceLoaded ==
  [][(dlsym_lzfse_encode_buffer # NullFn /\ dlsym_lzfse_decode_buffer # NullFn)
       => /\ dlopenCalls' = dlopenCalls
          /\ dlsymCalls' = dlsymCalls
          /\ dlsym_lzfse_encode_buffer' = dlsym_lzfse_encode_buffer
          /\ dlsym_lzfse_decode_buffer' = dlsym_lzfse_decode_buffer]_vars

Returned(t) == pc[t] = "idle" /\ initOutcome[t].side # "none"

BothSymbols == {"lzfse_encode_buffer", "lzfse_decode_buffer"}

OwnSymbol(side) ==
  IF side = "compressor" THEN "lzfse_encode_buffer" ELSE "lzfse_decode_buffer"

OwnPointer(side) ==
  IF side = "compressor" THEN dlsym_lzfse_encode_buffer
                         ELSE dlsym_lzfse_decode_buffer

Compressed == stage \in {"compressed", "handed", "decompressed"}

\* the compress destination holds the whole code of the input
SufficientCapacity == Len(Rle(original)) <= cInternalBufferSize

RoundTripExact ==
  /\ dFailure = NoException
  /\ L2 = Len(original)
  /\ SubSeq(decompressedBuffer, 1, L2) = original

\* C7: for a non-empty A, compressing A into a destination of sufficient
\* capacity yields L1 and decompressing the first L1 bytes with L1 as the
\* length yields exactly A, with no CodecFailure from either call.
C7_RoundTripAnyDestination ==
  (Compressed /\ Len(original) > 0 /\ SufficientCapacity) =>
    /\ cFailure = NoException
    /\ stage = "decompressed" => RoundTripExact

\* C7 (amended): the same, for a decompress destination whose capacity is at
\* least the length of A.
C7_RoundTripIntoLargeEnoughDestination ==
  (Compressed /\ Len(original) > 0 /\ SufficientCapacity) =>
    /\ cFailure = NoException
    /\ L1 = Len(Rle(original))
    /\ (stage = "decompressed" /\ dInternalBufferSize >= Len(original))
         => RoundTripExact

C7_Witness ==
  /\ stage = "decompressed"
  /\ original = <<65, 65, 66>>
  /\ Len(uncompressedBuffer) = 3
  /\ L1 = 4
  /\ L2 = 3
  /\ SubSeq(decompressedBuffer, 1, L2) = original

\* C8: compress with an empty input (sourceLength 0) on a loaded codec
\* raises no error and returns length 0, for every destination capacity.
C8_EmptyInputCompressesToEmpty ==
  (ForeignCalled /\ last.op = "compress" /\ last.size = 0) =>
    /\ last.exc = NoException
    /\ last.ret = 0

C8_Witness ==
  /\ ForeignCalled
  /\ last.op = "compress"
  /\ last.size = 0
  /\ last.cap = JINT_MAX
  /\ last.ret = 0

C10_NoCallThroughNullPointer == ~crashed

====
